---- MODULE Spec2Model ----
(***************************************************************************)
(* A model of dlt/randomizer_utils.py: the two hash kernels (cobol_hash,   *)
(* python_hash), generate_outcomes, chunk_using_generators,                *)
(* generate_all_L_RAND and add_ms_to_seed.                                 *)
(*                                                                         *)
(* TLC's integers are 32-bit, so every value that can exceed 2^31-1 (the   *)
(* 10-digit decimal coefficients, the 53-bit mantissas of doubles and the  *)
(* products formed while rounding them) is carried as a digit sequence.    *)
(***************************************************************************)
EXTENDS Integers, Sequences, FiniteSets, TLC

None == "None"

\* ------------------------------------------------------------------------
\* Constants of the generator (python_hash lines 27-30, cobol_hash 73-76).
C_Q == 127773
C_A == 16807
C_R == 2836
C_M == 2147483647

\* a context of 9 digits
PrecShort == 10 - 1

\* decimal context of cobol_hash: ctx.prec = 10, ctx.rounding = ROUND_DOWN
Prec == 10

\* ------------------------------------------------------------------------
\* Natural numbers of any size: sequences of 15-bit limbs, least significant
\* first, the last limb non-zero; zero is <<>>.  A product of two limbs plus
\* two carries stays below 2^31.

LB == 2 ^ 15

Zeros(k) == [i \in 1..k |-> 0]

Limb(x, i) == IF i <= Len(x) THEN x[i] ELSE 0

RECURSIVE LNorm(_)
LNorm(x) ==
  IF x = <<>> \/ x[Len(x)] # 0 THEN x ELSE LNorm(SubSeq(x, 1, Len(x) - 1))

RECURSIVE LFromInt(_)
LFromInt(n) == IF n = 0 THEN <<>> ELSE <<n % LB>> \o LFromInt(n \div LB)

RECURSIVE LAddC(_, _, _, _, _)
LAddC(x, y, i, c, acc) ==
  IF i > Len(x) /\ i > Len(y)
  THEN (IF c = 0 THEN acc ELSE Append(acc, c))
  ELSE LET s == Limb(x, i) + Limb(y, i) + c
       IN  LAddC(x, y, i + 1, s \div LB, Append(acc, s % LB))

LAdd(x, y) == LAddC(x, y, 1, 0, <<>>)

\* x - y for x >= y
RECURSIVE LSubC(_, _, _, _, _)
LSubC(x, y, i, b, acc) ==
  IF i > Len(x)
  THEN LNorm(acc)
  ELSE LET d == Limb(x, i) - Limb(y, i) - b
       IN  LSubC(x, y, i + 1, IF d < 0 THEN 1 ELSE 0,
                 Append(acc, IF d < 0 THEN d + LB ELSE d))

LSub(x, y) == LSubC(x, y, 1, 0, <<>>)

RECURSIVE LCmpAt(_, _, _)
LCmpAt(x, y, i) ==
  IF i = 0 THEN 0
  ELSE IF x[i] > y[i] THEN 1
  ELSE IF x[i] < y[i] THEN -1
  ELSE LCmpAt(x, y, i - 1)

\* -1, 0 or 1 as x < y, x = y or x > y
LCmp(x, y) ==
  IF Len(x) > Len(y) THEN 1
  ELSE IF Len(x) < Len(y) THEN -1
  ELSE LCmpAt(x, y, Len(x))

\* x * k for 0 <= k <= 2^15
RECURSIVE LMulSmallC(_, _, _, _, _)
LMulSmallC(x, k, i, c, acc) ==
  IF i > Len(x)
  THEN LNorm(IF c = 0 THEN acc ELSE Append(acc, c))
  ELSE LET t == x[i] * k + c
       IN  LMulSmallC(x, k, i + 1, t \div LB, Append(acc, t % LB))

LMulSmall(x, k) == LMulSmallC(x, k, 1, 0, <<>>)

LShiftLimbs(x, j) == IF x = <<>> THEN <<>> ELSE Zeros(j) \o x

RECURSIVE LMulAt(_, _, _, _)
LMulAt(x, y, j, acc) ==
  IF j > Len(y) THEN acc
  ELSE LMulAt(x, y, j + 1,
              LAdd(acc, LShiftLimbs(LMulSmall(x, y[j]), j - 1)))

LMul(x, y) == LMulAt(x, y, 1, <<>>)

\* x * 2^k and floor(x / 2^k)
LShl(x, k) == LShiftLimbs(LMulSmall(x, 2 ^ (k % 15)), k \div 15)

LShr(x, k) ==
  LET j == k \div 15
      s == k % 15
      n == Len(x) - j
  IN  IF n <= 0 THEN <<>>
      ELSE LNorm([i \in 1..n |-> (x[i + j] \div 2 ^ s)
                                 + (Limb(x, i + j + 1) % 2 ^ s) * 2 ^ (15 - s)])

\* x mod 2^k # 0
LLowNonZero(x, k) ==
  \/ \E i \in 1..(k \div 15) : Limb(x, i) # 0
  \/ Limb(x, (k \div 15) + 1) % 2 ^ (k % 15) # 0

RECURSIVE IntBitLen(_)
IntBitLen(n) == IF n = 0 THEN 0 ELSE 1 + IntBitLen(n \div 2)

LBitLen(x) == IF x = <<>> THEN 0 ELSE 15 * (Len(x) - 1) + IntBitLen(x[Len(x)])

\* schoolbook division: the 15 bits of one limb of the dividend brought
\* down one at a time
RECURSIVE LDivBits(_, _, _, _, _)
LDivBits(r, b, limb, k, q) ==
  IF k = 0 THEN [q |-> q, r |-> r]
  ELSE LET r1 == LAdd(LMulSmall(r, 2), LFromInt((limb \div 2 ^ (k - 1)) % 2))
       IN  IF LCmp(r1, b) >= 0
           THEN LDivBits(LSub(r1, b), b, limb, k - 1, 2 * q + 1)
           ELSE LDivBits(r1, b, limb, k - 1, 2 * q)

\* [q, r] with a = q*b + r and r < b
RECURSIVE LDivAt(_, _, _, _, _)
LDivAt(a, b, i, q, r) ==
  IF i = 0 THEN [q |-> LNorm(q), r |-> r]
  ELSE LET s == LDivBits(r, b, a[i], 15, 0)
       IN  LDivAt(a, b, i - 1, <<s.q>> \o q, s.r)

LDivMod(a, b) == LDivAt(a, b, Len(a), <<>>, <<>>)

\* the number written by a sequence of decimal digits, first digit first
RECURSIVE LFromDigitsAt(_, _, _)
LFromDigitsAt(ds, i, acc) ==
  IF i > Len(ds) THEN acc
  ELSE LFromDigitsAt(ds, i + 1, LAdd(LMulSmall(acc, 10), LFromInt(ds[i])))

LFromDigits(ds) == LFromDigitsAt(ds, 1, <<>>)

\* ------------------------------------------------------------------------
\* Decimal digit strings of non-negative integers (str(n), len(str(n))).

RECURSIVE Digits(_)
Digits(n) == IF n < 10 THEN <<n>> ELSE Append(Digits(n \div 10), n % 10)

Len10(n) == Len(Digits(n))

RECURSIVE StripLeadingZeros(_)
StripLeadingZeros(ds) ==
  IF Len(ds) > 1 /\ ds[1] = 0 THEN StripLeadingZeros(Tail(ds)) ELSE ds

RECURSIVE IntOfDigits(_)
IntOfDigits(ds) ==
  IF ds = <<>> THEN 0
  ELSE 10 * IntOfDigits(SubSeq(ds, 1, Len(ds) - 1)) + ds[Len(ds)]

\* ------------------------------------------------------------------------
\* decimal.Decimal under the context of cobol_hash (prec = 10, ROUND_DOWN).
\* A Decimal is [coef, exp]: the digits of its coefficient (no leading
\* zero; <<0>> for zero) and its exponent.  Only non-negative values occur
\* for identifiers >= 0.  The integer-valued operands of cobol_hash (SSN,
\* the constants, W_HI, W_LO, L_SD) are below 2^31, so they have at most 10
\* digits, the context never rounds their sums and products, and they are
\* kept as integers.

\* Long division without forming 10 * r: a state [v, k] stands for
\* k * b + v with v < b.  AddMod adds c < b to it.
AddMod(s, c, b) ==
  IF s.v >= b - c THEN [v |-> s.v - (b - c), k |-> s.k + 1]
  ELSE [v |-> s.v + c, k |-> s.k]

ModDouble(s, b) == AddMod([v |-> s.v, k |-> 2 * s.k], s.v, b)

\* one step of long division: for r < b, [v, k] with 10 * r = k * b + v
DivStep10(r, b) ==
  ModDouble(AddMod(ModDouble(ModDouble([v |-> r, k |-> 0], b), b), r, b), b)

RECURSIVE LongDiv(_, _, _, _)
LongDiv(r, b, k, acc) ==
  IF k = 0 THEN [digits |-> acc, r |-> r]
  ELSE LET s == DivStep10(r, b)
       IN  LongDiv(s.v, b, k - 1, Append(acc, s.k))

\* a coefficient plus one
RECURSIVE IncDigits(_)
IncDigits(ds) ==
  IF ds = <<>> THEN <<1>>
  ELSE IF ds[Len(ds)] < 9 THEN [ds EXCEPT ![Len(ds)] = @ + 1]
  ELSE Append(IncDigits(SubSeq(ds, 1, Len(ds) - 1)), 0)

\* ROUND_HALF_UP in place of ROUND_DOWN
DecRoundHalfUp(coef, keep) ==
  IF keep <= 0 THEN <<0>>
  ELSE IF keep < Len(coef) /\ coef[keep + 1] >= 5
  THEN IncDigits(SubSeq(coef, 1, keep))
  ELSE SubSeq(coef, 1, keep)

\* ROUND_DOWN: keep the first `keep` digits of a coefficient
DecRound(coef, keep) ==
  IF keep <= 0 THEN <<0>> ELSE SubSeq(coef, 1, keep)

\* Decimal._fix: round a result to the precision of the context
DecFix(d) ==
  IF Len(d.coef) > Prec
  THEN [coef |-> DecRound(d.coef, Prec), exp |-> d.exp + (Len(d.coef) - Prec)]
  ELSE d

\* an exact quotient is reduced towards the ideal exponent 0
RECURSIVE DecStripExact(_)
DecStripExact(d) ==
  IF d.exp < 0 /\ Len(d.coef) > 1 /\ d.coef[Len(d.coef)] = 0
  THEN DecStripExact([coef |-> SubSeq(d.coef, 1, Len(d.coef) - 1),
                      exp |-> d.exp + 1])
  ELSE d

\* the quotient digits c with remainder r: when the division is inexact a
\* last digit 0 or 5 is raised by one, so that rounding sees the remainder
DecQuotient(c, r, exp) ==
  IF r # 0
  THEN [coef |-> IF c[Len(c)] % 5 = 0 THEN [c EXCEPT ![Len(c)] = @ + 1] ELSE c,
        exp |-> exp]
  ELSE DecStripExact([coef |-> c, exp |-> exp])

DecDivideDigits(ld, shift) ==
  DecFix(DecQuotient(StripLeadingZeros(ld.digits), ld.r, -shift))

DecDivideShift(a, b, shift) ==
  DecDivideDigits(LongDiv(a % b, b, shift, Digits(a \div b)), shift)

\* Decimal(a) / Decimal(b) for integers a >= 0, b > 0: the quotient
\* a * 10^shift div b of prec + 1 or prec + 2 digits, rounded to the context
DecDivide(a, b) ==
  IF a = 0 THEN [coef |-> <<0>>, exp |-> 0]
  ELSE DecDivideShift(a, b, Len10(b) - Len10(a) + Prec + 1)

\* Decimal.quantize(Decimal("1E<e>")): the value with exponent e, or
\* InvalidOperation when it would need more than prec digits
DecQuantize(d, e) ==
  IF d.coef = <<0>> THEN [exc |-> None, coef |-> <<0>>, exp |-> e]
  ELSE IF (Len(d.coef) + d.exp - 1) - e + 1 > Prec
  THEN [exc |-> "InvalidOperation", coef |-> <<>>, exp |-> e]
  ELSE IF d.exp >= e
  THEN (IF Len(d.coef) + (d.exp - e) > Prec
        THEN [exc |-> "InvalidOperation", coef |-> <<>>, exp |-> e]
        ELSE [exc |-> None, coef |-> d.coef \o Zeros(d.exp - e), exp |-> e])
  ELSE [exc |-> None, coef |-> DecRound(d.coef, Len(d.coef) - (e - d.exp)),
        exp |-> e]

\* the L_RAND of a call that raised
NoDecimal == [coef |-> <<>>, exp |-> 0]

\* lines 85-91: L_RAND = (L_SD / C_M).quantize(1E-10), the zero warning and
\* the second addition of C_M, the return
CobolReturn(W_HI, W_LO, SD0, SD1, rq) ==
  IF rq.exc # None
  THEN [exc |-> rq.exc, L_RAND |-> NoDecimal, warnings |-> <<>>,
        W_HI |-> W_HI, W_LO |-> W_LO, SD0 |-> SD0, L_SD |-> SD1]
  ELSE IF rq.coef = <<0>>
  THEN [exc |-> None, L_RAND |-> [coef |-> rq.coef, exp |-> rq.exp],
        warnings |-> <<"L_RAND is zero">>,
        W_HI |-> W_HI, W_LO |-> W_LO, SD0 |-> SD0, L_SD |-> SD1 + C_M]
  ELSE [exc |-> None, L_RAND |-> [coef |-> rq.coef, exp |-> rq.exp],
        warnings |-> <<>>,
        W_HI |-> W_HI, W_LO |-> W_LO, SD0 |-> SD0, L_SD |-> SD1]

\* quantize(Decimal("1E-9")) in place of quantize(Decimal("1E-10"))
CobolQuotientNine(W_HI, W_LO, SD0, SD1) ==
  CobolReturn(W_HI, W_LO, SD0, SD1, DecQuantize(DecDivide(SD1, C_M), -9))

CobolQuotient(W_HI, W_LO, SD0, SD1) ==
  CobolReturn(W_HI, W_LO, SD0, SD1, DecQuantize(DecDivide(SD1, C_M), -10))

\* lines 83-84: if L_SD <= 0: L_SD += C_M
CobolCorrect(W_HI, W_LO, SD0) ==
  CobolQuotient(W_HI, W_LO, SD0, IF SD0 <= 0 THEN SD0 + C_M ELSE SD0)

\* lines 80-81: W_LO = L_SD - C_Q * W_HI; L_SD = C_A * W_LO - C_R * W_HI
CobolSeed(W_HI, W_LO) == CobolCorrect(W_HI, W_LO, C_A * W_LO - C_R * W_HI)

CobolSplit(SSN, wq) ==
  IF wq.exc # None
  THEN [exc |-> wq.exc, L_RAND |-> NoDecimal, warnings |-> <<>>,
        W_HI |-> 0, W_LO |-> 0, SD0 |-> 0, L_SD |-> 0]
  ELSE CobolSeed(IntOfDigits(wq.coef), SSN - C_Q * IntOfDigits(wq.coef))

\* cobol_hash(SSN): [exc, L_RAND, warnings] and the intermediate values.
\* Line 79: W_HI = (L_SD / C_Q).quantize(1E0)
cobol_hash(SSN) == CobolSplit(SSN, DecQuantize(DecDivide(SSN, C_Q), 0))

\* ------------------------------------------------------------------------
\* IEEE-754 binary64 (Python float), round to nearest, ties to even.  A
\* positive double is [m, e]: its value is m * 2^e with m a natural number of
\* exactly 53 bits; zero is [m |-> <<>>, e |-> 0].

\* the double nearest to P * 2^e (P > 0); sticky0 says that the exact value
\* lies strictly between P * 2^e and (P + 1) * 2^e
FRound(P, sticky0, e) ==
  LET L == LBitLen(P)
  IN  IF L <= 53 THEN [m |-> LShl(P, 53 - L), e |-> e - (53 - L)]
      ELSE LET k      == L - 53
               guard  == Limb(LShr(P, k - 1), 1) % 2
               sticky == sticky0 \/ LLowNonZero(P, k - 1)
               m0     == LShr(P, k)
               up     == guard = 1 /\ (sticky \/ m0[1] % 2 = 1)
               m1     == IF up THEN LAdd(m0, <<1>>) ELSE m0
           IN  IF LBitLen(m1) = 54
               THEN [m |-> LShr(m1, 1), e |-> e + k + 1]
               ELSE [m |-> m1, e |-> e + k]

\* float(n) for a natural number n > 0
FFromNat(n) == FRound(n, FALSE, 0)

\* float(a) / float(b) for natural numbers a >= 0, b > 0 below 2^53 (their
\* conversion to float is exact): the quotient to at least 55 bits, then
\* rounded
FDiv(a, b) ==
  IF a = <<>> THEN [m |-> <<>>, e |-> 0]
  ELSE LET s  == 56 + LBitLen(b) - LBitLen(a)
           dm == LDivMod(LShl(a, s), b)
       IN  FRound(dm.q, dm.r # <<>>, -s)

\* x * y for doubles x, y > 0
FMul(x, y) == FRound(LMul(x.m, y.m), FALSE, x.e + y.e)

\* math.floor(x) for a double x >= 0, as a natural number
FFloor(x) ==
  IF x.m = <<>> THEN <<>>
  ELSE IF x.e >= 0 THEN LShl(x.m, x.e)
  ELSE LShr(x.m, -x.e)

\* x < 1.0 for a double x >= 0
FLessOne(x) == x.m = <<>> \/ x.e + 53 <= 0

\* 10^10, and the float literal 1e10 (also float(10_000_000_000))
Ten10 == LFromDigits(<<1, 0, 0, 0, 0, 0, 0, 0, 0, 0, 0>>)

F1e10 == FFromNat(Ten10)

\* line 58: L_RAND = math.floor(L_SD / C_M * 1e10) / 1e10, fl being the floor
PythonReturn(W_HI, W_LO, SD0, SD1, fl) ==
  [exc |-> None,
   L_RAND |-> FDiv(fl, Ten10),
   warnings |-> IF SD0 <= 0 THEN <<"L_SD is negative">> ELSE <<>>,
   W_HI |-> W_HI, W_LO |-> W_LO, SD0 |-> SD0, L_SD |-> SD1, floor |-> fl]

PythonQuotient(W_HI, W_LO, SD0, SD1) ==
  PythonReturn(W_HI, W_LO, SD0, SD1,
               FFloor(FMul(FDiv(LFromInt(SD1), LFromInt(C_M)), F1e10)))

\* lines 52-54: if L_SD <= 0: warn, L_SD += C_M
PythonCorrect(W_HI, W_LO, SD0) ==
  PythonQuotient(W_HI, W_LO, SD0, IF SD0 <= 0 THEN SD0 + C_M ELSE SD0)

\* python_hash(SSN): [exc, L_RAND, warnings] and the intermediate values.
\* Lines 33-39: W_HI, W_LO and L_SD = C_A * W_LO - C_R * W_HI
python_hash(SSN) ==
  PythonCorrect(SSN \div C_Q, SSN % C_Q,
                C_A * (SSN % C_Q) - C_R * (SSN \div C_Q))

\* ========================================================================
\* State.  Each part of the program is run by a specification of its own;
\* the variables of the other parts stay idle.

\* the hash kernels: the identifier and what each kernel returned
VARIABLES hSSN, hCobol, hPython

hashVars == <<hSSN, hCobol, hPython>>

\* add_ms_to_seed: its arguments, the clock's microseconds, what it returned
VARIABLES jSsn, jMs, jClock, jRet

jitterVars == <<jSsn, jMs, jClock, jRet>>

\* chunk_using_generators: its arguments lst and n, the loop variable i, the
\* chunks yielded so far and where the generator stands
VARIABLES gLst, gN, gI, gOut, gPc

chunkVars == <<gLst, gN, gI, gOut, gPc>>

\* generate_outcomes: its arguments, the pool, the thread pool's tasks, the
\* index of the next result the caller takes from executor.map, the results
\* taken, the exception on its way to the caller, the caller's position and
\* what the call returned
VARIABLES bArgs, ssn_pool, bTasks, bNext, ssn_outcomes, bExc, bPc, bRet

batchVars == <<bArgs, ssn_pool, bTasks, bNext, ssn_outcomes, bExc, bPc, bRet>>

\* generate_all_L_RAND: its arguments, the chunks, the process pool's tasks,
\* the index of the next result the coordinator takes, the frames taken, the
\* exception on its way to the caller, the coordinator's position and the
\* output file
VARIABLES pArgs, list_of_list_of_ssn, pTasks, pNext, pOutcomes, pExc, pPc, pSink

pipeVars ==
  <<pArgs, list_of_list_of_ssn, pTasks, pNext, pOutcomes, pExc, pPc, pSink>>

\* cobol_hash on two identifiers: the identifiers, what each call returned
\* and whether the two calls are being made
VARIABLES nA, nB, nRetA, nRetB, nPc

pairVars == <<nA, nB, nRetA, nRetB, nPc>>

vars == <<hashVars, jitterVars, chunkVars, batchVars, pipeVars, pairVars>>

\* what a step of one part leaves alone
notHash == <<jitterVars, chunkVars, batchVars, pipeVars, pairVars>>

notJitter == <<hashVars, chunkVars, batchVars, pipeVars, pairVars>>

notChunk == <<hashVars, jitterVars, batchVars, pipeVars, pairVars>>

notBatch == <<hashVars, jitterVars, chunkVars, pipeVars, pairVars>>

notPair == <<hashVars, jitterVars, chunkVars, batchVars, pipeVars>>

notPipe == <<hashVars, jitterVars, chunkVars, batchVars, pairVars>>

\* a call that has not been made
NotCalled == [exc |-> "not called"]

Called(r) == r.exc # "not called"

Returned(r) == r.exc = None

\* ========================================================================
\* The hash kernels, each applied to one identifier.

\* the identifiers evaluated: the ends of the identifier range, the
\* identifiers around a multiple of C_Q, those whose corrected L_SD is 2 and
\* C_M - 1, those at which the two kernels differ, and a sample of the range
HashSamples == 100

HashStride == 7654321

HashIds ==
  {0, 1, C_Q - 1, C_Q, C_Q + 1, 638866, 1010001, 46808478, 93616956,
   123456789, 667870353, 668494708, 739806647, 899999998, 999951498,
   999999998, 999999999}
  \cup {k * HashStride : k \in 1..HashSamples}

HashInit ==
  /\ hSSN \in HashIds
  /\ hCobol = NotCalled
  /\ hPython = NotCalled

HashIdle ==
  /\ hSSN = 0
  /\ hCobol = NotCalled
  /\ hPython = NotCalled

CallCobolHash ==
  /\ ~Called(hCobol)
  /\ hCobol' = cobol_hash(hSSN)
  /\ UNCHANGED <<hSSN, hPython>>
  /\ UNCHANGED notHash

CallPythonHash ==
  /\ ~Called(hPython)
  /\ hPython' = python_hash(hSSN)
  /\ UNCHANGED <<hSSN, hCobol>>
  /\ UNCHANGED notHash

HashNext == CallCobolHash \/ CallPythonHash

\* ========================================================================
\* cobol_hash applied to two identifiers.

PairSamples == 40

PairStride == 24680135

\* the pairs evaluated: identifiers whose corrected seeds are s and s + 1
\* (for small, middle and large s), neighbouring identifiers, and identifiers
\* C_Q apart
PairIds ==
  {<<976059236, 236252589>>, <<904122942, 164316295>>, <<832186648, 92380001>>,
   <<760250354, 20443707>>, <<996502943, 256696296>>, <<924566649, 184760002>>,
   <<852630355, 112823708>>, <<780694061, 40887414>>, <<940091089, 200284442>>,
   <<868154795, 128348148>>, <<796218501, 56411854>>, <<960534796, 220728149>>,
   <<888598502, 148791855>>, <<816662208, 76855561>>, <<811742941, 71936294>>,
   <<883679235, 143872588>>, <<955615529, 215808882>>, <<791299234, 51492587>>,
   <<863235528, 123428881>>, <<935171822, 195365175>>, <<770855527, 31048880>>,
   <<842791821, 102985174>>, <<1, 2>>, <<1, 999999999>>, <<999999998, 999999999>>}
  \cup {<<k * PairStride, k * PairStride + 1>> : k \in 1..PairSamples}
  \cup {<<k * PairStride, k * PairStride + C_Q>> : k \in 1..PairSamples}

PairInit ==
  /\ \E pr \in PairIds : nA = pr[1] /\ nB = pr[2]
  /\ nRetA = NotCalled
  /\ nRetB = NotCalled
  /\ nPc = "call"

PairIdle ==
  /\ nA = 0
  /\ nB = 0
  /\ nRetA = NotCalled
  /\ nRetB = NotCalled
  /\ nPc = "idle"

CallCobolA ==
  /\ nPc = "call"
  /\ ~Called(nRetA)
  /\ nRetA' = cobol_hash(nA)
  /\ UNCHANGED <<nA, nB, nRetB, nPc>>
  /\ UNCHANGED notPair

CallCobolB ==
  /\ nPc = "call"
  /\ ~Called(nRetB)
  /\ nRetB' = cobol_hash(nB)
  /\ UNCHANGED <<nA, nB, nRetA, nPc>>
  /\ UNCHANGED notPair

PairNext == CallCobolA \/ CallCobolB

\* ========================================================================
\* add_ms_to_seed (lines 182-188).  A Python int of any size is written by
\* its decimal digits; a str is a sequence of one-character strings.

DigitChar == <<"0", "1", "2", "3", "4", "5", "6", "7", "8", "9">>

IsDigitChar(c) == \E d \in 1..10 : DigitChar[d] = c

CharValue(c) == (CHOOSE d \in 1..10 : DigitChar[d] = c) - 1

\* str(n) for an int n
PyStr(n) ==
  IF n < 0
  THEN <<"-">> \o [i \in 1..Len10(-n) |-> DigitChar[Digits(-n)[i] + 1]]
  ELSE [i \in 1..Len10(n) |-> DigitChar[Digits(n)[i] + 1]]

\* s[::-1]
Reverse(s) == [i \in 1..Len(s) |-> s[Len(s) + 1 - i]]

\* int(s) for a str s of digits with at most one sign: the digits of the
\* value and its sign, or ValueError when a character other than a leading
\* sign is no digit
PyInt(s) ==
  IF s # <<>> /\ \A i \in 1..Len(s) : IsDigitChar(s[i])
  THEN [exc |-> None, neg |-> FALSE,
        digits |-> StripLeadingZeros([i \in 1..Len(s) |-> CharValue(s[i])])]
  ELSE IF Len(s) > 1 /\ s[1] = "-" /\ \A i \in 2..Len(s) : IsDigitChar(s[i])
  THEN [exc |-> None, neg |-> TRUE,
        digits |-> StripLeadingZeros([i \in 1..(Len(s) - 1) |-> CharValue(s[i + 1])])]
  ELSE [exc |-> "ValueError", neg |-> FALSE, digits |-> <<>>]

\* add_ms_to_seed(ssn, ms): ms is [given, value]; when it is not given
\* (ms is None) the offset is the clock's microseconds, 0 <= clock < 1000000
add_ms_to_seed(ssn, ms, clock) ==
  PyInt(Reverse(PyStr(ssn + (IF ms.given THEN ms.value ELSE clock))))

\* ms = None
MsNone == [given |-> FALSE, value |-> 0]

\* identifiers of 1, 7, 8 and 9 digits, the ends of the range the test draws
JitterSsns ==
  {0, 5, 1010001, 10000000, 99999999, 123456789, 899999999, 999000000,
   999999998}

JitterOffsets == {-1000000, -10, -1, 0, 1, 500000, 999999}

JitterClocks == {0, 1, 123456, 999999}

JitterInit ==
  /\ jSsn \in JitterSsns
  /\ jMs \in {MsNone} \cup {[given |-> TRUE, value |-> m] : m \in JitterOffsets}
  /\ jClock = 0
  /\ jRet = NotCalled

JitterIdle ==
  /\ jSsn = 0
  /\ jMs = MsNone
  /\ jClock = 0
  /\ jRet = NotCalled

CallAddMsToSeed ==
  /\ ~Called(jRet)
  /\ \E clock \in JitterClocks :
       /\ jClock' = (IF jMs.given THEN 0 ELSE clock)
       /\ jRet' = add_ms_to_seed(jSsn, jMs, clock)
  /\ UNCHANGED <<jSsn, jMs>>
  /\ UNCHANGED notJitter

JitterNext == CallAddMsToSeed

\* ========================================================================
\* chunk_using_generators (lines 140-142) over np.arange(low, high).

\* np.arange(low, high): low, ..., high - 1; empty when high <= low
Arange(low, high) == [i \in 1..(high - low) |-> low + i - 1]

\* lst[i:j+1] in place of lst[i:j]
SliceOff(lst, i, j) ==
  SubSeq(lst, i + 1, IF j + 1 < Len(lst) THEN j + 1 ELSE Len(lst))

\* lst[i:j] for 0 <= i <= j
Slice(lst, i, j) == SubSeq(lst, i + 1, IF j < Len(lst) THEN j ELSE Len(lst))

\* list(chunk_using_generators(lst, n)) for n >= 1
RECURSIVE ChunksFrom(_, _, _)
ChunksFrom(lst, n, i) ==
  IF i >= Len(lst) THEN <<>>
  ELSE <<Slice(lst, i, i + n)>> \o ChunksFrom(lst, n, i + n)

chunk_using_generators(lst, n) == ChunksFrom(lst, n, 0)

ChunkMaxLen == 7

ChunkMaxN == 4

ChunkLows == {0, 1010001}

ChunkInit ==
  /\ \E low \in ChunkLows : \E len \in 0..ChunkMaxLen :
       gLst = Arange(low, low + len)
  /\ gN \in 0..ChunkMaxN
  /\ gI = 0
  /\ gOut = <<>>
  /\ gPc = "start"

ChunkIdle ==
  /\ gLst = <<>>
  /\ gN = 0
  /\ gI = 0
  /\ gOut = <<>>
  /\ gPc = "idle"

\* range(0, len(lst), n): a step of zero raises ValueError
GenStart ==
  /\ gPc = "start"
  /\ gPc' = (IF gN = 0 THEN "ValueError" ELSE "loop")
  /\ UNCHANGED <<gLst, gN, gI, gOut>>
  /\ UNCHANGED notChunk

\* yield lst[i : i + n]
GenYield ==
  /\ gPc = "loop"
  /\ gI < Len(gLst)
  /\ gOut' = Append(gOut, Slice(gLst, gI, gI + gN))
  /\ gI' = gI + gN
  /\ UNCHANGED <<gLst, gN, gPc>>
  /\ UNCHANGED notChunk

\* the range is exhausted
GenStop ==
  /\ gPc = "loop"
  /\ gI >= Len(gLst)
  /\ gPc' = "done"
  /\ UNCHANGED <<gLst, gN, gI, gOut>>
  /\ UNCHANGED notChunk

ChunkNext == GenStart \/ GenYield \/ GenStop

\* ========================================================================
\* generate_outcomes (lines 94-137).

\* ascending insertion sort: ndarray.sort() on integers
RECURSIVE InsertAsc(_, _)
InsertAsc(x, s) ==
  IF s = <<>> THEN <<x>>
  ELSE IF x <= Head(s) THEN <<x>> \o s
  ELSE <<Head(s)>> \o InsertAsc(x, Tail(s))

RECURSIVE SortAsc(_)
SortAsc(s) == IF s = <<>> THEN <<>> ELSE InsertAsc(Head(s), SortAsc(Tail(s)))

\* what the caller of a kernel gets: the value or the exception
KernelOut(r) == [exc |-> r.exc, L_RAND |-> r.L_RAND]

\* line 72: Decimal(SSN) for a str of digits, as the integer it denotes
DecimalOfStr(s) == IntOfDigits(PyInt(s).digits)

\* the call a worker thread makes for one element: python_hash on the
\* element, cobol_hash on its str
RunKernel(process_type, arg) ==
  IF process_type = "python" THEN KernelOut(python_hash(arg))
  ELSE KernelOut(cobol_hash(DecimalOfStr(arg)))

\* line 135: L_RAND * 10_000_000_000, a float product for python_hash's
\* floats and an exact Decimal product (default context) for cobol_hash's
RandWhole(process_type, L) ==
  IF process_type = "python" THEN FMul(L, F1e10)
  ELSE IF L.coef = <<0>> THEN [coef |-> <<0>>, exp |-> L.exp]
  ELSE [coef |-> L.coef \o <<0, 0, 0, 0, 0, 0, 0, 0, 0, 0>>, exp |-> L.exp]

\* lines 132-135: one row per position of the pool and of the outcomes
Frame(pool, outcomes, process_type, whole) ==
  [i \in 1..Len(outcomes) |->
     IF whole
     THEN [SSN |-> pool[i], L_RAND |-> outcomes[i],
           L_RAND_WHOLE |-> RandWhole(process_type, outcomes[i])]
     ELSE [SSN |-> pool[i], L_RAND |-> outcomes[i]]]

\* input_list = None
InputNone == [given |-> FALSE, kind |-> "none", items |-> <<>>]

NoPool == [kind |-> "none", items |-> <<>>]

BatchMaxLen == 2

BatchMaxSize == 2

BatchWorkers == 2

BatchIds == {0, 1, 123456789}

BatchLows == {0, 1, 3}

BatchHighs == {1, 3}

BatchProcessTypes == {"python", "cobol", "other"}

\* the calls: an explicit pool (a Python list or an ndarray), a sampled pool,
\* an exhaustive pool
BatchCalls ==
  [input_list : [given : {TRUE}, kind : {"list", "ndarray"},
                 items : UNION {[1..n -> BatchIds] : n \in 0..BatchMaxLen}],
   process_type : BatchProcessTypes, low : {0}, high : {0}, size : {0},
   all_values : {FALSE}, generate_rand_whole : BOOLEAN]
  \cup
  [input_list : {InputNone}, process_type : BatchProcessTypes,
   low : BatchLows, high : BatchHighs, size : 0..BatchMaxSize,
   all_values : {FALSE}, generate_rand_whole : BOOLEAN]
  \cup
  [input_list : {InputNone}, process_type : BatchProcessTypes,
   low : BatchLows, high : BatchHighs, size : {0},
   all_values : {TRUE}, generate_rand_whole : BOOLEAN]

BatchInit ==
  /\ bArgs \in BatchCalls
  /\ ssn_pool = NoPool
  /\ bTasks = <<>>
  /\ bNext = 1
  /\ ssn_outcomes = <<>>
  /\ bExc = None
  /\ bPc = "pool"
  /\ bRet = NotCalled

BatchIdle ==
  /\ bArgs = [input_list |-> InputNone, process_type |-> "cobol", low |-> 0,
              high |-> 0, size |-> 0, all_values |-> FALSE,
              generate_rand_whole |-> FALSE]
  /\ ssn_pool = NoPool
  /\ bTasks = <<>>
  /\ bNext = 1
  /\ ssn_outcomes = <<>>
  /\ bExc = None
  /\ bPc = "idle"
  /\ bRet = NotCalled

\* the call ends with an exception
BatchRaise(e) ==
  /\ bPc' = "raised"
  /\ bRet' = [exc |-> e, rows |-> <<>>]

\* lines 107-108: the explicit pool is the caller's object
PoolExplicit ==
  /\ bPc = "pool"
  /\ bArgs.input_list.given
  /\ ssn_pool' = [kind |-> bArgs.input_list.kind,
                  items |-> bArgs.input_list.items]
  /\ bPc' = "submit"
  /\ UNCHANGED <<bArgs, bTasks, bNext, ssn_outcomes, bExc, bRet>>
  /\ UNCHANGED notBatch

\* lines 109-113: size draws from [low, high), sorted.  The seeded generator
\* is one fixed draw; any draw is allowed here.
PoolSampled ==
  /\ bPc = "pool"
  /\ ~bArgs.input_list.given
  /\ ~bArgs.all_values
  /\ bArgs.low < bArgs.high
  /\ \E draw \in [1..bArgs.size -> bArgs.low..(bArgs.high - 1)] :
       ssn_pool' = [kind |-> "ndarray", items |-> SortAsc(draw)]
  /\ bPc' = "submit"
  /\ UNCHANGED <<bArgs, bTasks, bNext, ssn_outcomes, bExc, bRet>>
  /\ UNCHANGED notBatch

\* line 112 with low >= high: randint raises ValueError
PoolSampledRaise ==
  /\ bPc = "pool"
  /\ ~bArgs.input_list.given
  /\ ~bArgs.all_values
  /\ bArgs.low >= bArgs.high
  /\ BatchRaise("ValueError")
  /\ UNCHANGED <<bArgs, ssn_pool, bTasks, bNext, ssn_outcomes, bExc>>
  /\ UNCHANGED notBatch

\* line 112 with low >= high and size = 0: a numpy that returns the empty
\* array before it looks at the bounds
PoolSampledEmpty ==
  /\ bPc = "pool"
  /\ ~bArgs.input_list.given
  /\ ~bArgs.all_values
  /\ bArgs.low >= bArgs.high
  /\ bArgs.size = 0
  /\ ssn_pool' = [kind |-> "ndarray", items |-> <<>>]
  /\ bPc' = "submit"
  /\ UNCHANGED <<bArgs, bTasks, bNext, ssn_outcomes, bExc, bRet>>
  /\ UNCHANGED notBatch

\* lines 114-115: np.arange(low, high)
PoolAll ==
  /\ bPc = "pool"
  /\ ~bArgs.input_list.given
  /\ bArgs.all_values
  /\ ssn_pool' = [kind |-> "ndarray", items |-> Arange(bArgs.low, bArgs.high)]
  /\ bPc' = "submit"
  /\ UNCHANGED <<bArgs, bTasks, bNext, ssn_outcomes, bExc, bRet>>
  /\ UNCHANGED notBatch

\* executor.map submits one task per element, in order
Submitted(args) ==
  [i \in 1..Len(args) |-> [arg |-> args[i], st |-> "pending", out |-> NotCalled]]

\* lines 118-122: executor.map(python_hash, ssn_pool)
SubmitPython ==
  /\ bPc = "submit"
  /\ bArgs.process_type = "python"
  /\ bTasks' = Submitted(ssn_pool.items)
  /\ bPc' = "collect"
  /\ UNCHANGED <<bArgs, ssn_pool, bNext, ssn_outcomes, bExc, bRet>>
  /\ UNCHANGED notBatch

\* lines 124-130: executor.map(cobol_hash, ssn_pool.astype(str))
SubmitCobol ==
  /\ bPc = "submit"
  /\ bArgs.process_type = "cobol"
  /\ ssn_pool.kind = "ndarray"
  /\ bTasks' = Submitted([i \in 1..Len(ssn_pool.items) |-> PyStr(ssn_pool.items[i])])
  /\ bPc' = "collect"
  /\ UNCHANGED <<bArgs, ssn_pool, bNext, ssn_outcomes, bExc, bRet>>
  /\ UNCHANGED notBatch

\* line 128 on a Python list: a list has no astype
SubmitCobolList ==
  /\ bPc = "submit"
  /\ bArgs.process_type = "cobol"
  /\ ssn_pool.kind = "list"
  /\ BatchRaise("AttributeError")
  /\ UNCHANGED <<bArgs, ssn_pool, bTasks, bNext, ssn_outcomes, bExc>>
  /\ UNCHANGED notBatch

\* lines 117 and 124: neither branch is taken
SubmitNothing ==
  /\ bPc = "submit"
  /\ bArgs.process_type \notin {"python", "cobol"}
  /\ bPc' = "frame"
  /\ UNCHANGED <<bArgs, ssn_pool, bTasks, bNext, ssn_outcomes, bExc, bRet>>
  /\ UNCHANGED notBatch

Running(tasks) == {j \in 1..Len(tasks) : tasks[j].st = "running"}

\* a free worker takes the oldest pending task
StartOk(tasks, i, workers) ==
  /\ tasks[i].st = "pending"
  /\ \A j \in 1..(i - 1) : tasks[j].st # "pending"
  /\ Cardinality(Running(tasks)) < workers

\* the finally clause of executor.map's result iterator: the futures not yet
\* taken are cancelled; those that are running cannot be
CancelPending(tasks) ==
  [j \in 1..Len(tasks) |->
     IF tasks[j].st = "pending" THEN [tasks[j] EXCEPT !.st = "cancelled"]
     ELSE tasks[j]]

ThreadStart(i) ==
  /\ bPc \in {"collect", "exit"}
  /\ StartOk(bTasks, i, BatchWorkers)
  /\ bTasks' = [bTasks EXCEPT ![i].st = "running"]
  /\ UNCHANGED <<bArgs, ssn_pool, bNext, ssn_outcomes, bExc, bPc, bRet>>
  /\ UNCHANGED notBatch

ThreadFinish(i) ==
  /\ bPc \in {"collect", "exit"}
  /\ bTasks[i].st = "running"
  /\ bTasks' = [bTasks EXCEPT ![i].st = "finished",
                              ![i].out = RunKernel(bArgs.process_type, bTasks[i].arg)]
  /\ UNCHANGED <<bArgs, ssn_pool, bNext, ssn_outcomes, bExc, bPc, bRet>>
  /\ UNCHANGED notBatch

\* list(executor.map(...)) takes the results in the order of submission
BatchCollect ==
  /\ bPc = "collect"
  /\ bNext <= Len(bTasks)
  /\ bTasks[bNext].st = "finished"
  /\ bTasks[bNext].out.exc = None
  /\ ssn_outcomes' = Append(ssn_outcomes, bTasks[bNext].out.L_RAND)
  /\ bNext' = bNext + 1
  /\ UNCHANGED <<bArgs, ssn_pool, bTasks, bExc, bPc, bRet>>
  /\ UNCHANGED notBatch

\* the result taken is an exception: it is raised in the caller
BatchCollectRaise ==
  /\ bPc = "collect"
  /\ bNext <= Len(bTasks)
  /\ bTasks[bNext].st = "finished"
  /\ bTasks[bNext].out.exc # None
  /\ bExc' = bTasks[bNext].out.exc
  /\ bTasks' = CancelPending(bTasks)
  /\ bPc' = "exit"
  /\ UNCHANGED <<bArgs, ssn_pool, bNext, ssn_outcomes, bRet>>
  /\ UNCHANGED notBatch

\* the end of the with block joins the worker threads
BatchExit ==
  /\ \/ bPc = "collect" /\ bNext > Len(bTasks)
     \/ bPc = "exit"
  /\ Running(bTasks) = {}
  /\ IF bExc = None
     THEN bPc' = "frame" /\ UNCHANGED bRet
     ELSE BatchRaise(bExc)
  /\ UNCHANGED <<bArgs, ssn_pool, bTasks, bNext, ssn_outcomes, bExc>>
  /\ UNCHANGED notBatch

\* lines 132-137; ssn_outcomes is unbound when no branch was taken
BatchFrame ==
  /\ bPc = "frame"
  /\ IF bArgs.process_type \in {"python", "cobol"}
     THEN /\ bPc' = "done"
          /\ bRet' = [exc |-> None,
                      rows |-> Frame(ssn_pool.items, ssn_outcomes,
                                     bArgs.process_type,
                                     bArgs.generate_rand_whole)]
     ELSE BatchRaise("UnboundLocalError")
  /\ UNCHANGED <<bArgs, ssn_pool, bTasks, bNext, ssn_outcomes, bExc>>
  /\ UNCHANGED notBatch

ThreadStarts == \E i \in 1..Len(bTasks) : ThreadStart(i)

ThreadFinishes == \E i \in 1..Len(bTasks) : ThreadFinish(i)

BatchNext ==
  \/ PoolExplicit
  \/ PoolSampled
  \/ PoolSampledRaise
  \/ PoolSampledEmpty
  \/ PoolAll
  \/ SubmitPython
  \/ SubmitCobol
  \/ SubmitCobolList
  \/ SubmitNothing
  \/ ThreadStarts
  \/ ThreadFinishes
  \/ BatchCollect
  \/ BatchCollectRaise
  \/ BatchExit
  \/ BatchFrame

\* ========================================================================
\* generate_all_L_RAND (lines 145-179).

\* generate_outcomes(chunk, "cobol") as a process-pool task, outs being the
\* results of cobol_hash on the str of each element: the first exception in
\* pool order, or the frame
ChunkFrame(chunk, outs) ==
  IF \E i \in 1..Len(outs) : outs[i].exc # None
  THEN [exc |-> outs[CHOOSE i \in 1..Len(outs) :
                       /\ outs[i].exc # None
                       /\ \A j \in 1..(i - 1) : outs[j].exc = None].exc,
        rows |-> <<>>]
  ELSE [exc |-> None,
        rows |-> Frame(chunk, [i \in 1..Len(outs) |-> outs[i].L_RAND],
                       "cobol", FALSE)]

ChunkTask(chunk) ==
  ChunkFrame(chunk, [i \in 1..Len(chunk) |-> RunKernel("cobol", PyStr(chunk[i]))])

\* a > b for two digit strings without leading zeros
RECURSIVE DigitsGreater(_, _)
DigitsGreater(a, b) ==
  IF Len(a) # Len(b) THEN Len(a) > Len(b)
  ELSE IF a = <<>> THEN FALSE
  ELSE IF Head(a) # Head(b) THEN Head(a) > Head(b)
  ELSE DigitsGreater(Tail(a), Tail(b))

\* a > b for two non-negative Decimals of the same exponent
DecGreater(a, b) ==
  DigitsGreater(StripLeadingZeros(a.coef), StripLeadingZeros(b.coef))

\* ascending=True in place of ascending=False
SortsBeforeAscending(x, y) == DecGreater(y.L_RAND, x.L_RAND)

\* sort_values(by="L_RAND", ascending=False): x goes before y
SortsBefore(x, y) == DecGreater(x.L_RAND, y.L_RAND)

RECURSIVE InsertRow(_, _)
InsertRow(x, s) ==
  IF s = <<>> THEN <<x>>
  ELSE IF SortsBefore(x, Head(s)) THEN <<x>> \o s
  ELSE <<Head(s)>> \o InsertRow(x, Tail(s))

RECURSIVE SortRows(_)
SortRows(s) ==
  IF s = <<>> THEN <<>>
  ELSE InsertRow(s[Len(s)], SortRows(SubSeq(s, 1, Len(s) - 1)))

\* pd.concat(ssn_outcomes): the rows of the frames, in order
RECURSIVE Concat(_)
Concat(frames) ==
  IF frames = <<>> THEN <<>> ELSE Head(frames) \o Concat(Tail(frames))

\* a failed chunk passed over in place of raised
TaskSkipsFailure(out) == FALSE

\* future.result() raises the exception the task ended with
TaskRaises(out) == out.exc # None

NotWritten == [written |-> FALSE, rows |-> <<>>]

PipeMaxLen == 4

PipeMaxChunk == 3

PipeWorkers == 2

PipeMins == {0, 1, 127772}

PipeInit ==
  /\ \E lo \in PipeMins : \E len \in 0..PipeMaxLen :
       \E n \in 0..PipeMaxChunk :
         pArgs = [ssn_min |-> lo, ssn_max |-> lo + len, chunksize |-> n]
  /\ list_of_list_of_ssn = <<>>
  /\ pTasks = <<>>
  /\ pNext = 1
  /\ pOutcomes = <<>>
  /\ pExc = None
  /\ pPc = "chunk"
  /\ pSink = NotWritten

PipeIdle ==
  /\ pArgs = [ssn_min |-> 0, ssn_max |-> 0, chunksize |-> 0]
  /\ list_of_list_of_ssn = <<>>
  /\ pTasks = <<>>
  /\ pNext = 1
  /\ pOutcomes = <<>>
  /\ pExc = None
  /\ pPc = "idle"
  /\ pSink = NotWritten

\* lines 162-164: the domain and its chunks; range() rejects a step of 0
PipeChunk ==
  /\ pPc = "chunk"
  /\ IF pArgs.chunksize = 0
     THEN /\ pPc' = "raised"
          /\ pExc' = "ValueError"
          /\ UNCHANGED list_of_list_of_ssn
     ELSE /\ list_of_list_of_ssn' =
               chunk_using_generators(Arange(pArgs.ssn_min, pArgs.ssn_max),
                                      pArgs.chunksize)
          /\ pPc' = "submit"
          /\ UNCHANGED pExc
  /\ UNCHANGED <<pArgs, pTasks, pNext, pOutcomes, pSink>>
  /\ UNCHANGED notPipe

\* lines 166-169: executor.map submits one task per chunk
PipeSubmit ==
  /\ pPc = "submit"
  /\ pTasks' = Submitted(list_of_list_of_ssn)
  /\ pPc' = "collect"
  /\ UNCHANGED <<pArgs, list_of_list_of_ssn, pNext, pOutcomes, pExc, pSink>>
  /\ UNCHANGED notPipe

ProcStart(i) ==
  /\ pPc \in {"collect", "exit"}
  /\ StartOk(pTasks, i, PipeWorkers)
  /\ pTasks' = [pTasks EXCEPT ![i].st = "running"]
  /\ UNCHANGED <<pArgs, list_of_list_of_ssn, pNext, pOutcomes, pExc, pPc, pSink>>
  /\ UNCHANGED notPipe

ProcFinish(i) ==
  /\ pPc \in {"collect", "exit"}
  /\ pTasks[i].st = "running"
  /\ pTasks' = [pTasks EXCEPT ![i].st = "finished",
                              ![i].out = ChunkTask(pTasks[i].arg)]
  /\ UNCHANGED <<pArgs, list_of_list_of_ssn, pNext, pOutcomes, pExc, pPc, pSink>>
  /\ UNCHANGED notPipe

ProcStarts == \E i \in 1..Len(pTasks) : ProcStart(i)

ProcFinishes == \E i \in 1..Len(pTasks) : ProcFinish(i)

\* lines 167-172: list(executor.map(...)) takes the frames in chunk order
PipeCollect ==
  /\ pPc = "collect"
  /\ pNext <= Len(pTasks)
  /\ pTasks[pNext].st = "finished"
  /\ ~TaskRaises(pTasks[pNext].out)
  /\ pOutcomes' = Append(pOutcomes, pTasks[pNext].out.rows)
  /\ pNext' = pNext + 1
  /\ UNCHANGED <<pArgs, list_of_list_of_ssn, pTasks, pExc, pPc, pSink>>
  /\ UNCHANGED notPipe

\* the frame taken is an exception: it is raised in the coordinator and the
\* chunks not yet started are cancelled
PipeCollectRaise ==
  /\ pPc = "collect"
  /\ pNext <= Len(pTasks)
  /\ pTasks[pNext].st = "finished"
  /\ TaskRaises(pTasks[pNext].out)
  /\ pExc' = pTasks[pNext].out.exc
  /\ pTasks' = CancelPending(pTasks)
  /\ pPc' = "exit"
  /\ UNCHANGED <<pArgs, list_of_list_of_ssn, pNext, pOutcomes, pSink>>
  /\ UNCHANGED notPipe

\* the end of the with block waits for the worker processes; a pending
\* exception then leaves the function
PipeExit ==
  /\ \/ pPc = "collect" /\ pNext > Len(pTasks)
     \/ pPc = "exit"
  /\ Running(pTasks) = {}
  /\ pPc' = (IF pExc = None THEN "write" ELSE "raised")
  /\ UNCHANGED <<pArgs, list_of_list_of_ssn, pTasks, pNext, pOutcomes, pExc, pSink>>
  /\ UNCHANGED notPipe

\* lines 175-179: concat, sort_values descending, reset_index, to_csv;
\* pd.concat of no frame raises ValueError
PipeWrite ==
  /\ pPc = "write"
  /\ IF pOutcomes = <<>>
     THEN /\ pPc' = "raised"
          /\ pExc' = "ValueError"
          /\ UNCHANGED pSink
     ELSE /\ pSink' = [written |-> TRUE, rows |-> SortRows(Concat(pOutcomes))]
          /\ pPc' = "done"
          /\ UNCHANGED pExc
  /\ UNCHANGED <<pArgs, list_of_list_of_ssn, pTasks, pNext, pOutcomes>>
  /\ UNCHANGED notPipe

\* a step of the run is possible: the coordinator is at a step of its own, or
\* a worker can finish or start a chunk, or the frame the coordinator waits
\* for is there
PipeCanStep ==
  \/ pPc \in {"chunk", "submit", "write"}
  \/ /\ pPc \in {"collect", "exit"}
     /\ \/ Running(pTasks) # {}
        \/ \E i \in 1..Len(pTasks) : StartOk(pTasks, i, PipeWorkers)
        \/ pPc = "exit"
        \/ pNext > Len(pTasks)
        \/ pTasks[pNext].st = "finished"

PipeNext ==
  \/ PipeChunk
  \/ PipeSubmit
  \/ ProcStarts
  \/ ProcFinishes
  \/ PipeCollect
  \/ PipeCollectRaise
  \/ PipeExit
  \/ PipeWrite

\* ========================================================================
\* Specifications.  Each starts one part of the program and leaves the
\* others idle.

InitHash ==
  HashInit /\ JitterIdle /\ ChunkIdle /\ BatchIdle /\ PipeIdle /\ PairIdle

SpecHash == InitHash /\ [][HashNext]_vars

InitJitter ==
  JitterInit /\ HashIdle /\ ChunkIdle /\ BatchIdle /\ PipeIdle /\ PairIdle

SpecJitter == InitJitter /\ [][JitterNext]_vars

InitChunk ==
  ChunkInit /\ HashIdle /\ JitterIdle /\ BatchIdle /\ PipeIdle /\ PairIdle

SpecChunk == InitChunk /\ [][ChunkNext]_vars

InitBatch ==
  BatchInit /\ HashIdle /\ JitterIdle /\ ChunkIdle /\ PipeIdle /\ PairIdle

SpecBatch == InitBatch /\ [][BatchNext]_vars

InitPipe ==
  PipeInit /\ HashIdle /\ JitterIdle /\ ChunkIdle /\ BatchIdle /\ PairIdle

SpecPipe == InitPipe /\ [][PipeNext]_vars

\* every worker process and the coordinator keep running: weak fairness of
\* PipeNext, WF_vars(PipeNext), with its enabling condition written out
SpecPipeFair == SpecPipe /\ ([]<>~PipeCanStep \/ []<><<PipeNext>>_vars)

InitPair ==
  PairInit /\ HashIdle /\ JitterIdle /\ ChunkIdle /\ BatchIdle /\ PipeIdle

\* either two calls of cobol_hash or a run of generate_all_L_RAND
InitPairOrPipe == InitPair \/ InitPipe

SpecOrder == InitPairOrPipe /\ [][PairNext \/ PipeNext]_vars

\* ========================================================================
\* Properties.

\* floor(a * 10^10 / b), by exact integer arithmetic
FloorScaled(a, b) == LDivMod(LMul(LFromInt(a), Ten10), LFromInt(b)).q

\* |n - w| <= 1 for a natural number n and a double w > 0
WithinOne(n, w) ==
  LET k == IF w.e < 0 THEN -w.e ELSE 0
      a == LShl(n, k)
      b == IF w.e < 0 THEN w.m ELSE LShl(w.m, w.e)
      d == IF LCmp(a, b) >= 0 THEN LSub(a, b) ELSE LSub(b, a)
  IN  LCmp(d, LShl(<<1>>, k)) <= 0

\* the pre-correction and corrected seed of the shared algorithm
SeedBefore(id) == C_A * (id % C_Q) - C_R * (id \div C_Q)

SeedAfter(id) == IF SeedBefore(id) <= 0 THEN SeedBefore(id) + C_M ELSE SeedBefore(id)

\* C1: for every identifier 1 <= id <= 999999999 cobol_hash returns exactly
\* floor(SD * 10^10 / M) / 10^10, SD being the corrected seed computed in
\* exact integer arithmetic (no step of the decimal computation loses a
\* digit); cobol_hash(123456789) = 0.2184182969.
C1_CobolExact ==
  (Called(hCobol) /\ hSSN >= 1 /\ hSSN <= 999999999) =>
    /\ Returned(hCobol)
    /\ hCobol.W_HI = hSSN \div C_Q
    /\ hCobol.W_LO = hSSN % C_Q
    /\ hCobol.SD0 = SeedBefore(hSSN)
    /\ hCobol.L_SD = SeedAfter(hSSN)
    /\ hCobol.L_RAND.exp = -10
    /\ LFromDigits(hCobol.L_RAND.coef) = FloorScaled(SeedAfter(hSSN), C_M)
    /\ (hSSN = 123456789 =>
          hCobol.L_RAND = [coef |-> <<2, 1, 8, 4, 1, 8, 2, 9, 6, 9>>, exp |-> -10])

C1_Witness ==
  /\ hSSN = 123456789
  /\ Returned(hCobol)
  /\ hCobol.L_RAND = [coef |-> <<2, 1, 8, 4, 1, 8, 2, 9, 6, 9>>, exp |-> -10]

\* C2: for every identifier in [0, 999999999) each kernel returns without
\* raising, and its L_RAND satisfies 0 <= L_RAND < 1.
C2_TotalBelowOne ==
  (hSSN >= 0 /\ hSSN < 999999999) =>
    /\ Called(hCobol) =>
         /\ Returned(hCobol)
         /\ hCobol.L_RAND.exp = -10
         /\ Len(hCobol.L_RAND.coef) <= 10
    /\ Called(hPython) =>
         /\ Returned(hPython)
         /\ FLessOne(hPython.L_RAND)

\* C3: for every identifier in [0, 999999999) the two kernels' results scaled
\* by 10^10 (L_RAND * 10_000_000_000, as generate_outcomes scales them) differ
\* by at most 1; python_hash(123456789) is the float 0.2184182969.
C3_VariantsWithinOne ==
  (Called(hCobol) /\ Called(hPython) /\ hSSN >= 0 /\ hSSN < 999999999) =>
    /\ Returned(hCobol)
    /\ Returned(hPython)
    /\ WithinOne(LFromDigits(hCobol.L_RAND.coef), FMul(hPython.L_RAND, F1e10))
    /\ (hSSN = 123456789 =>
          hPython.L_RAND = FDiv(LFromDigits(<<2, 1, 8, 4, 1, 8, 2, 9, 6, 9>>), Ten10))


\* the offset a call of add_ms_to_seed used
JitterOffset == IF jMs.given THEN jMs.value ELSE jClock

\* C9: add_ms_to_seed(ssn, ms) has no error conditions: for every identifier
\* ssn >= 0 and every supplied integer ms it returns, without raising, the
\* integer whose digits are the decimal digits of ssn + ms reversed.
C9_JitterTotal ==
  (Called(jRet) /\ jMs.given /\ jSsn >= 0) =>
    /\ Returned(jRet)
    /\ jSsn + jMs.value >= 0
    /\ ~jRet.neg
    /\ jRet.digits = StripLeadingZeros(Reverse(Digits(jSsn + jMs.value)))

\* int(s[:3]) and int(s[-3:][::-1]) of test_add_ms_to_seed
Lead3(ds) == IntOfDigits(SubSeq(ds, 1, IF Len(ds) < 3 THEN Len(ds) ELSE 3))

RevLast3(ds) ==
  IntOfDigits(Reverse(SubSeq(ds, IF Len(ds) < 3 THEN 1 ELSE Len(ds) - 2, Len(ds))))

AbsDiff(a, b) == IF a >= b THEN a - b ELSE b - a

\* C10: for every ssn in [1010001, 999999999) and every offset ms in
\* [0, 1000000) the three leading digits of ssn and the reversed last three
\* characters of str(add_ms_to_seed(ssn, ms)) differ by at most 2.
C10_LeadingDigitsKept ==
  (/\ Called(jRet)
   /\ jSsn >= 1010001 /\ jSsn < 999999999
   /\ JitterOffset >= 0 /\ JitterOffset < 1000000) =>
    /\ Returned(jRet)
    /\ AbsDiff(Lead3(Digits(jSsn)), RevLast3(jRet.digits)) <= 2

RECURSIVE Flatten(_)
Flatten(ss) == IF ss = <<>> THEN <<>> ELSE Head(ss) \o Flatten(Tail(ss))

CeilDiv(a, b) == (a + b - 1) \div b

\* C6: for every domain [low, high) with low < high and every chunk length
\* n >= 1 the chunks of arange(low, high) are contiguous and do not overlap,
\* each has at most n elements and all but the last exactly n, their
\* concatenation is low..high-1, and there are ceil((high - low) / n) chunks.
C6_ChunksPartition ==
  (gPc = "done" /\ gN >= 1 /\ gLst # <<>>) =>
    /\ Len(gOut) = CeilDiv(Len(gLst), gN)
    /\ \A k \in 1..Len(gOut) :
         /\ Len(gOut[k]) >= 1
         /\ Len(gOut[k]) <= gN
         /\ k < Len(gOut) => Len(gOut[k]) = gN
         /\ \A i \in 1..(Len(gOut[k]) - 1) : gOut[k][i + 1] = gOut[k][i] + 1
         /\ k < Len(gOut) => gOut[k + 1][1] = gOut[k][Len(gOut[k])] + 1
    /\ gOut[1][1] = gLst[1]
    /\ gOut[Len(gOut)][Len(gOut[Len(gOut)])] = gLst[Len(gLst)]
    /\ Flatten(gOut) = gLst
    /\ gOut = chunk_using_generators(gLst, gN)

C6_Witness ==
  /\ gPc = "done"
  /\ gN >= 2
  /\ Len(gOut) >= 3
  /\ Len(gOut[Len(gOut)]) < gN

\* the kernel the variant names, applied to the identifier itself
KernelOf(process_type, id) ==
  IF process_type = "python" THEN KernelOut(python_hash(id))
  ELSE KernelOut(cobol_hash(id))

\* C4: for each pool mode (explicit list used verbatim, sampled, exhaustive)
\* and each variant ('cobol', 'python'), generate_outcomes returns a result
\* with exactly one row per pool element, row i holding (pool[i],
\* kernel(pool[i])) in pool order, whatever order the workers finish in.
C4_RowPerElement ==
  (/\ bPc \in {"done", "raised"}
   /\ bArgs.process_type \in {"cobol", "python"}
   /\ ssn_pool.kind # "none")
  => /\ bPc = "done"
     /\ Returned(bRet)
     /\ bArgs.input_list.given => ssn_pool.items = bArgs.input_list.items
     /\ Len(bRet.rows) = Len(ssn_pool.items)
     /\ \A i \in 1..Len(bRet.rows) :
          /\ bRet.rows[i].SSN = ssn_pool.items[i]
          /\ KernelOf(bArgs.process_type, ssn_pool.items[i]).exc = None
          /\ bRet.rows[i].L_RAND =
               KernelOf(bArgs.process_type, ssn_pool.items[i]).L_RAND

\* C8: building a pool in sampled or exhaustive mode with high <= low fails
\* with an error and generate_outcomes returns no result.
C8_BadRangeFails ==
  (/\ bPc \in {"done", "raised"}
   /\ ~bArgs.input_list.given
   /\ bArgs.high <= bArgs.low)
  => (bPc = "raised" /\ ~Returned(bRet))

PipeDomain == pArgs.ssn_min..(pArgs.ssn_max - 1)

\* C5: for ssn_min < ssn_max and chunksize >= 1, a run that completes
\* persists exactly one row (SSN, cobol_hash(SSN)) for each SSN of
\* [ssn_min, ssn_max) and no other row, with L_RAND non-increasing from each
\* row to the next.
C5_PersistedDataset ==
  (pPc = "done" /\ pArgs.ssn_min < pArgs.ssn_max /\ pArgs.chunksize >= 1) =>
    /\ pSink.written
    /\ Len(pSink.rows) = pArgs.ssn_max - pArgs.ssn_min
    /\ \A k \in 1..Len(pSink.rows) : pSink.rows[k].SSN \in PipeDomain
    /\ \A id \in PipeDomain :
         /\ Cardinality({k \in 1..Len(pSink.rows) : pSink.rows[k].SSN = id}) = 1
         /\ \A k \in 1..Len(pSink.rows) :
              pSink.rows[k].SSN = id =>
                /\ cobol_hash(id).exc = None
                /\ pSink.rows[k].L_RAND = cobol_hash(id).L_RAND
    /\ \A k \in 1..(Len(pSink.rows) - 1) :
         ~DecGreater(pSink.rows[k + 1].L_RAND, pSink.rows[k].L_RAND)

C5_Witness ==
  /\ pPc = "done"
  /\ pSink.written
  /\ Len(list_of_list_of_ssn) >= 2
  /\ Len(pSink.rows) >= 3
  /\ pSink.rows[1].SSN > pSink.rows[2].SSN

TaskFailed(i) == pTasks[i].st = "finished" /\ pTasks[i].out.exc # None

TaskSucceeded(i) == pTasks[i].st = "finished" /\ pTasks[i].out.exc = None

SomeTaskFailed == \E i \in 1..Len(pTasks) : TaskFailed(i)

\* the sink is written only after every chunk task has succeeded, and never
\* when one has failed; when the run has raised no worker is left running
SinkAfterAll ==
  /\ pSink.written =>
       /\ pPc = "done"
       /\ pTasks # <<>>
       /\ \A i \in 1..Len(pTasks) : TaskSucceeded(i)
  /\ SomeTaskFailed => ~pSink.written /\ pPc \notin {"write", "done"}
  /\ pPc = "raised" =>
       \A i \in 1..Len(pTasks) : pTasks[i].st \in {"finished", "cancelled"}

\* only the coordinator's write step changes the sink; a failed task is not
\* run again; a run that raised takes no further step
SinkByCoordinator ==
  /\ pSink' # pSink =>
       /\ pPc = "write"
       /\ pPc' = "done"
       /\ pTasks' = pTasks
       /\ \A i \in 1..Len(pTasks) : TaskSucceeded(i)
  /\ \A i \in 1..Len(pTasks) : TaskFailed(i) => pTasks'[i] = pTasks[i]
  /\ pPc = "raised" => UNCHANGED pipeVars

\* the exception of a failed task has reached the caller and the run is over
FailureRaised ==
  /\ pPc = "raised"
  /\ \E i \in 1..Len(pTasks) : TaskFailed(i) /\ pExc = pTasks[i].out.exc
  /\ ~pSink.written

\* C7: the sink is written only by the coordinator and only after every
\* chunk task has completed successfully; if any chunk task raises, in any
\* interleaving of the workers, the exception reaches the caller, the run
\* ends, and nothing is ever written to the sink (no partial artifact, no
\* retry).
C7_FailFast ==
  /\ []SinkAfterAll
  /\ [][SinkByCoordinator]_vars
  /\ SomeTaskFailed ~> FailureRaised

C7_Witness ==
  /\ pPc = "raised"
  /\ ~pSink.written
  /\ SomeTaskFailed
  /\ \E j \in 1..Len(pTasks) : TaskSucceeded(j)
  /\ \E j \in 1..Len(pTasks) : pTasks[j].st = "cancelled"

\* C11: in both variants a warning is emitted in exactly those evaluations in
\* which the wraparound correction is triggered (the pre-correction seed
\* C_A * W_LO - C_R * W_HI is <= 0 and C_M is added), and the evaluation then
\* continues and returns its value.  Stated on the identifiers 1..999999999.
C11_WarnsOnCorrection ==
  (hSSN >= 1 /\ hSSN <= 999999999) =>
    /\ Called(hPython) =>
         /\ Returned(hPython)
         /\ (hPython.warnings # <<>>) <=> (SeedBefore(hSSN) <= 0)
         /\ hPython.L_SD = SeedAfter(hSSN)
    /\ Called(hCobol) =>
         /\ Returned(hCobol)
         /\ (hCobol.warnings # <<>>) <=> (SeedBefore(hSSN) <= 0)
         /\ hCobol.L_SD = SeedAfter(hSSN)

Nines10 == <<9, 9, 9, 9, 9, 9, 9, 9, 9, 9>>

\* the digits of the integer a Decimal of exponent -10 denotes, or <<>> when
\* it is no integer
WholeDigits(w) ==
  IF w.coef = <<0>> THEN <<0>>
  ELSE IF Len(w.coef) <= 10 THEN <<>>
  ELSE IF \E i \in (Len(w.coef) - 9)..Len(w.coef) : w.coef[i] # 0 THEN <<>>
  ELSE StripLeadingZeros(SubSeq(w.coef, 1, Len(w.coef) - 10))

\* C12: for every SSN of the default sweep domain [1010001, 899999999) the
\* exact variant's scaled result L_RAND * 10^10 is an integer, at least 0 and
\* strictly less than 9999999999.
C12_WholeBelowMax ==
  (Called(hCobol) /\ hSSN >= 1010001 /\ hSSN < 899999999) =>
    /\ Returned(hCobol)
    /\ hCobol.L_RAND.exp = -10
    /\ RandWhole("cobol", hCobol.L_RAND).exp = -10
    /\ WholeDigits(RandWhole("cobol", hCobol.L_RAND)) # <<>>
    /\ DigitsGreater(Nines10, WholeDigits(RandWhole("cobol", hCobol.L_RAND)))
    /\ LFromDigits(WholeDigits(RandWhole("cobol", hCobol.L_RAND)))
         = FloorScaled(SeedAfter(hSSN), C_M)

\* the identifier of the sweep domain with the largest seed, C_M - 1
C12_Witness ==
  /\ hSSN = 739806647
  /\ Returned(hCobol)
  /\ hCobol.L_SD = C_M - 1
  /\ WholeDigits(RandWhole("cobol", hCobol.L_RAND)) = <<9, 9, 9, 9, 9, 9, 9, 9, 9, 5>>

\* 16807 * id mod 2147483647, by exact integer arithmetic
LehmerSeed(id) == LDivMod(LMul(LFromInt(C_A), LFromInt(id)), LFromInt(C_M)).r

\* the call returned and its corrected seed is 16807 * id mod 2147483647
SeedIsLehmer(id, ret) ==
  Called(ret) => (Returned(ret) /\ LFromInt(ret.L_SD) = LehmerSeed(id))

\* the L_RAND of identifier id is larger than that of identifier j
HashAbove(j, id) == DecGreater(cobol_hash(j).L_RAND, cobol_hash(id).L_RAND)

\* C13: cobol_hash is injective on 1..999999999: two distinct identifiers
\* have distinct corrected seeds (16807 * id mod 2147483647) and distinct
\* L_RAND; hence the sort of generate_all_L_RAND has no ties and the order of
\* the persisted rows is determined by the domain alone, whatever the chunk
\* size and the order in which the workers finish.
C13_Injective ==
  /\ SeedIsLehmer(nA, nRetA)
  /\ SeedIsLehmer(nB, nRetB)
  /\ (Called(nRetA) /\ Called(nRetB) /\ nA # nB) =>
       /\ nRetA.L_SD # nRetB.L_SD
       /\ nRetA.L_RAND # nRetB.L_RAND
       /\ DecGreater(nRetA.L_RAND, nRetB.L_RAND)
            \/ DecGreater(nRetB.L_RAND, nRetA.L_RAND)
  /\ (pSink.written /\ pArgs.ssn_min >= 1) =>
       /\ \A k \in 1..(Len(pSink.rows) - 1) :
            DecGreater(pSink.rows[k].L_RAND, pSink.rows[k + 1].L_RAND)
       /\ \A k \in 1..Len(pSink.rows) :
            k = 1 + Cardinality({j \in PipeDomain : HashAbove(j, pSink.rows[k].SSN)})

\* two identifiers whose seeds are s and s + 1, both hashed
C13_Witness ==
  /\ Returned(nRetA)
  /\ Returned(nRetB)
  /\ nRetB.L_SD = nRetA.L_SD + 1
  /\ nRetA.L_RAND.coef = <<1, 0, 2>>
  /\ nRetB.L_RAND.coef = <<1, 0, 7>>


\* C14: the zero branch of cobol_hash is unreachable: for every identifier
\* in 1..999999999 the seed after the wraparound correction is at least 1,
\* the truncated L_RAND is at least 0.0000000004 and never 0, the warning
\* 'L_RAND is zero' is not emitted and C_M is not added a second time.
C14_ZeroBranchDead ==
  (Called(hCobol) /\ hSSN >= 1 /\ hSSN <= 999999999) =>
    /\ Returned(hCobol)
    /\ SeedAfter(hSSN) >= 1
    /\ hCobol.L_SD = SeedAfter(hSSN)
    /\ hCobol.L_RAND.exp = -10
    /\ hCobol.L_RAND.coef # <<0>>
    /\ ~DigitsGreater(<<4>>, StripLeadingZeros(hCobol.L_RAND.coef))
    /\ \A i \in 1..Len(hCobol.warnings) : hCobol.warnings[i] # "L_RAND is zero"

\* the identifier of the range with the smallest seed, 2
C14_Witness ==
  /\ hSSN = 667870353
  /\ Returned(hCobol)
  /\ hCobol.L_SD = 2
  /\ hCobol.L_RAND = [coef |-> <<9>>, exp |-> -10]
====
